---- MODULE Spec2Model ----
(***************************************************************************)
(* Verification development for pi-docverifi: the lifecycle of one         *)
(* document verification job under concurrent Dispatcher runs              *)
(* (process_document_verification), the process endpoint, the SQS queue    *)
(* worker, reviewer actions and the administrative stop script.            *)
(*                                                                         *)
(* Granularity.  One action per database transaction / external call of    *)
(* the Dispatcher.  Statements between two consecutive transactions are    *)
(* only logging.  The model assumes storage commits succeed; exceptions    *)
(* come from the stages that can raise at the Dispatcher level: the        *)
(* registry lookup and the scoring call (OCRService.process_document and   *)
(* ForensicService.process_document catch every Exception themselves).     *)
(***************************************************************************)
EXTENDS Integers, Sequences, FiniteSets, TLC

\* ------------------------------------------------------------------ bounds
MaxRuns == 2        \* Dispatcher runs that may be started for the job
MaxWorkers == 2     \* queue worker processes polling the same queue

MaxSubscribers == 2 \* progress streams opened for the job
MaxEvents == 2      \* update_progress calls of one Dispatcher run (bus model)
MaxNumberLen == 8   \* characters of a company number given as text
MaxClock == 4       \* time the VAT client is followed for, in units of 5 minutes
MaxLookups == 3     \* verify_vat_number calls of one VAT client
MaxPages == 3       \* pages of the document converted page by page
MaxPolls == 2       \* sleeps of poll_interval that fit in max_wait_time
MaxDeliveries == 5  \* deliveries of one message that are followed

Runs == 1..MaxRuns
Workers == 1..MaxWorkers
Streams == 1..MaxSubscribers

NULL == "null"

VARIABLES
    status,         \* DocumentVerification.status in the database ("none": no row yet)
    decision,       \* DocumentVerification.decision in the database
    hasNumber,      \* the job has a company number (from OCR or the merchant)
    msg,            \* state of the job's SQS message
    wpc,            \* per worker: position in worker.main
    wrun,           \* per worker: the Dispatcher run it is invoking (0: none)
    pc,             \* per run: position in process_document_verification
    ldecision,      \* per run: document.decision as loaded in the run's session
    evs,            \* per run: progress events the run published, in order
    stages,         \* per run: stages completed (or skipped), in order
    outcome,        \* per run: exit path taken
    \* --- the Progress Bus (ProgressService) for the job's document_id
    progress_data,  \* _progress_data[document_id] (NoData: no entry)
    connections,    \* _connections[document_id]: the list of subscriber queues
    listGen,        \* identity of the list object held in _connections
    received,       \* per stream: everything put on its queue, in order
    taken,          \* per stream: how many of them queue.get() returned
    spc,            \* per stream: position in stream_progress.event_generator
    upc,            \* per run: position in update_progress
    uev,            \* per run: progress_data of the call in progress
    uidx,           \* per run: index of the list iterator at line 76
    ugen,           \* per run: the list object the iterator walks
    utargets,       \* per run: streams registered when the broadcast began
    ucount,         \* per run: update_progress calls made so far
    clock,          \* datetime.utcnow(), as a counter of calls
    \* --- ScoringService applied to one set of arguments
    sin,            \* the arguments of the scoring call
    sout,           \* what the call returned
    \* --- ForensicService.process_document applied to one file
    fin,            \* the file and what the seven checks measure on it
    fout,           \* what the call returned
    \* --- one Dispatcher run with the data it moves
    din,            \* the document, the merchant's form and the registry's answer
    doc,            \* the DocumentVerification row
    dpc,            \* where the run is
    devents,        \* the steps published so far
    lookups,        \* get_company_profile calls made
    polls,          \* sleeps of the Textract polling loop so far
    \* --- manual_review applied to one job row
    rrow,           \* the row's status, decision and review metadata
    rreq,           \* the last review request and its HTTP status
    \* --- ScoringService.normalize_company_number applied to one text
    nin,            \* the company number as text
    nout,           \* what the call returned
    \* --- HMRCVATService: one client and its OAuth token cache
    hmrc,           \* _access_token, _token_expires_at and the configured server token
    tclock,         \* datetime.now(), in units of 5 minutes
    tissued,        \* access tokens the token endpoint has issued
    trejected,      \* OAuth tokens the VAT API answered with 401
    tlast,          \* the last verify_vat_number call
    \* --- OCRService: the per-page fallback of one document
    opc,            \* where the fallback is
    osaving,        \* pages whose save_image task has not completed
    temp_image_paths, \* the list of line 188
    results_dict,   \* page text per index of image_paths (0: not yet)
    full_text,      \* the page texts joined, as the list of pages
    \* --- worker.py: one message on the work queue and the worker's loop
    qbody,          \* the body of the message
    qstate,         \* visible, inflight or deleted
    qwork,          \* where the worker's loop is
    qreceives,      \* times receive_message has returned the message
    qcalls,         \* process_message calls made
    qdispatched     \* process_document_verification calls made

jobVars == <<status, decision, hasNumber, msg, wpc, wrun, pc, ldecision, evs,
             stages, outcome>>

busVars == <<progress_data, connections, listGen, received, taken, spc, upc,
             uev, uidx, ugen, utargets, ucount, clock>>

scoreVars == <<sin, sout>>

\* what the actions of each component leave alone
forensicVars == <<fin, fout>>
docVars == <<din, doc, dpc, devents, lookups, polls>>
reviewVars == <<rrow, rreq>>
normVars == <<nin, nout>>
vatVars == <<hmrc, tclock, tissued, trejected, tlast>>
pagesVars == <<opc, osaving, temp_image_paths, results_dict, full_text>>
queueVars == <<qbody, qstate, qwork, qreceives, qcalls, qdispatched>>

nonJobVars == <<busVars, scoreVars, forensicVars, docVars, reviewVars, normVars, vatVars, pagesVars, queueVars>>
nonBusVars == <<jobVars, scoreVars, forensicVars, docVars, reviewVars, normVars, vatVars, pagesVars, queueVars>>
nonScoreVars == <<jobVars, busVars, forensicVars, docVars, reviewVars, normVars, vatVars, pagesVars, queueVars>>
nonForensicVars == <<jobVars, busVars, scoreVars, docVars, reviewVars, normVars, vatVars, pagesVars, queueVars>>
nonDocVars == <<jobVars, busVars, scoreVars, forensicVars, reviewVars, normVars, vatVars, pagesVars, queueVars>>
nonReviewVars == <<jobVars, busVars, scoreVars, forensicVars, docVars, normVars, vatVars, pagesVars, queueVars>>
nonNormVars == <<jobVars, busVars, scoreVars, forensicVars, docVars, reviewVars, vatVars, pagesVars, queueVars>>
nonVatVars == <<jobVars, busVars, scoreVars, forensicVars, docVars, reviewVars, normVars, pagesVars, queueVars>>
nonPagesVars == <<jobVars, busVars, scoreVars, forensicVars, docVars, reviewVars, normVars, vatVars, queueVars>>
nonQueueVars == <<jobVars, busVars, scoreVars, forensicVars, docVars, reviewVars, normVars, vatVars, pagesVars>>

vars == <<jobVars, nonJobVars>>

dbVars == <<status, decision, hasNumber>>
workerVars == <<wpc, wrun>>

AutoTerminal == {"passed", "failed", "review"}
Decisions == {"PASS", "FAIL", "REVIEW"}
ReviewActions == {"APPROVE", "REJECT", "ESCALATE"}

\* progress_service.update_progress builds the event from its arguments
Event(step, progress, st) == [step |-> step, percent |-> progress, status |-> st]

\* update_progress_sync(step, progress, message, status) of run r
Publish(r, step, progress, st) ==
    evs' = [evs EXCEPT ![r] = Append(@, Event(step, progress, st))]

\* two publications within the same transaction-free stretch of code
Publish2(r, e1, e2) ==
    evs' = [evs EXCEPT ![r] = Append(Append(@, e1), e2)]

\* document.status = v; db.commit()
WriteStatus(v) ==
    /\ status' = v
    /\ UNCHANGED hasNumber

HasFreeRun == \E r \in Runs : pc[r] = "idle"
FreeRun == CHOOSE r \in Runs : pc[r] = "idle" /\ \A q \in Runs : q < r => pc[q] # "idle"

\* background_tasks.add_task(process_document_verification, document_id)
Schedule(r) ==
    pc' = [pc EXCEPT ![r] = "scheduled"]

\* update_progress lines 61-68: the dict built from the arguments
ProgressData(e, ts) == [event |-> e, timestamp |-> ts]

\* no entry for the document_id in _progress_data (dict.get returns None)
NoData == ProgressData(Event("none", 0, "none"), 0)

\* ProgressService.__init__; no stream opened, no update_progress call made
BusInit ==
    /\ progress_data = NoData
    /\ connections = <<>>
    /\ listGen = 0
    /\ received = [s \in Streams |-> <<>>]
    /\ taken = [s \in Streams |-> 0]
    /\ spc = [s \in Streams |-> "new"]
    /\ upc = [r \in Runs |-> "idle"]
    /\ uev = [r \in Runs |-> NoData]
    /\ uidx = [r \in Runs |-> 0]
    /\ ugen = [r \in Runs |-> 0]
    /\ utargets = [r \in Runs |-> {}]
    /\ ucount = [r \in Runs |-> 0]
    /\ clock = 0

\* ----------------------------------------------------------------- scoring
\* Scores are Python floats; the model counts them in 1/Unit of a point, which
\* represents every product and quotient below exactly for whole-percent
\* similarities and confidences and half-point penalties.
Unit == 12000

\* None for ocr_confidence (a number otherwise)
NoConfidence == 0 - 1

\* A company number is a string of digits: its length and its value as a
\* number.  NoNumber is None.
CompanyNumber(len, val) == [len |-> len, val |-> val]
NoNumber == CompanyNumber(0, 0)

\* the merchant_data dict built at verification.py lines 170-175
MerchantCases ==
    {[name |-> NULL, number |-> NoNumber, address |-> NULL],
     [name |-> "a", number |-> NoNumber, address |-> NULL],
     [name |-> NULL, number |-> CompanyNumber(8, 1), address |-> NULL],
     [name |-> "a", number |-> CompanyNumber(8, 1), address |-> "p"]}

\* the companies_house_data dict built at lines 177-182: nothing stored, the
\* result of a lookup without profile, a profile without address, a profile
RegistryCases ==
    {[name |-> NULL, number |-> NoNumber, address |-> NULL, date |-> NULL],
     [name |-> NULL, number |-> CompanyNumber(8, 1), address |-> NULL, date |-> NULL],
     [name |-> "a", number |-> CompanyNumber(8, 1), address |-> NULL, date |-> "d"],
     [name |-> "a", number |-> CompanyNumber(8, 1), address |-> "p", date |-> "d"]}

\* the arguments of process_scoring.  name_ratio and other_ratio are what
\* SequenceMatcher.ratio() gives (in percent) for two different names and
\* for two different numbers or addresses.
ScoreInputs ==
    [ocr_name : {NULL, "a", "b"},
     ocr_number : {NoNumber, CompanyNumber(7, 1), CompanyNumber(8, 1),
                   CompanyNumber(8, 2)},
     ocr_address : {NULL, "p", "q"},
     confidence : {NoConfidence, 92, 100},
     merchant : MerchantCases,
     registry : RegistryCases,
     forensic_penalty : {0, 12 * Unit, 15 * Unit},
     name_ratio : {50, 80, 87, 92, 99},
     other_ratio : {40, 90}]

NoInput ==
    [ocr_name |-> NULL, ocr_number |-> NoNumber, ocr_address |-> NULL,
     confidence |-> NoConfidence,
     merchant |-> [name |-> NULL, number |-> NoNumber, address |-> NULL],
     registry |-> [name |-> NULL, number |-> NoNumber, address |-> NULL,
                   date |-> NULL],
     forensic_penalty |-> 0, name_ratio |-> 0, other_ratio |-> 0]

\* the dict process_scoring returns (lines 416-425); "raised" stands for an
\* exception leaving the call
ScoreResult(variant, ocr, reg, cmp, prov, dm, final, dec) ==
    [variant |-> variant, ocr_score |-> ocr, registry_score |-> reg,
     ocr_comparison_score |-> cmp, provided_score |-> prov,
     data_match_score |-> dm, final_score |-> final, decision |-> dec,
     raised |-> FALSE]

NoResult == ScoreResult("none", 0, 0, 0, 0, 0, 0, NULL)

\* no scoring call in progress
ScoreIdle ==
    /\ sin = NoInput
    /\ sout = NoResult

\* ---------------------------------------------------------------- forensic
\* what a check that reports (suspicious, score) found
CheckResult(suspicious, score) == [suspicious |-> suspicious, score |-> score]

\* what pypdf reports of a PDF: CreationDate after ModDate, how many names
\* of the suspicious_software list occur in creator or producer, creator and
\* producer both missing, ModDate in 2024 or 2025
PdfFacts ==
    {f \in [created_after_modified : BOOLEAN, software : 0..2,
            no_creator_producer : BOOLEAN, recent_modification : BOOLEAN] :
        f.no_creator_producer => f.software = 0}

\* the file handed to the stage and the measurements of the checks on it
ForensicInputs ==
    [path : {"missing", "pdf_unconvertible", "exception", "pdf", "image"},
     ela_score : {40, 80},
     copy_move_detected : BOOLEAN,
     copy_move_confidence : {30, 45, 60, 75},
     looks_scanned : BOOLEAN,
     jpeg_quality : {10, 75},
     pdf : PdfFacts,
     resolution : {CheckResult(FALSE, 100), CheckResult(TRUE, 45)},
     color : {CheckResult(FALSE, 100), CheckResult(TRUE, 60), CheckResult(TRUE, 40)},
     noise : {CheckResult(FALSE, 100), CheckResult(TRUE, 50)}]

NoFile ==
    [path |-> "none", ela_score |-> 0, copy_move_detected |-> FALSE,
     copy_move_confidence |-> 0, looks_scanned |-> FALSE, jpeg_quality |-> 0,
     pdf |-> [created_after_modified |-> FALSE, software |-> 0,
              no_creator_producer |-> FALSE, recent_modification |-> FALSE],
     resolution |-> CheckResult(FALSE, 100), color |-> CheckResult(FALSE, 100),
     noise |-> CheckResult(FALSE, 100)]

\* the dict process_document returns: the two numbers, and details["error"]
\* on the paths that return early (NULL: details is the list of findings)
ForensicResult(penalty, score, error) ==
    [forensic_penalty |-> penalty, forensic_score |-> score, error |-> error,
     returned |-> TRUE]

NoForensicResult ==
    [forensic_penalty |-> 0, forensic_score |-> 0, error |-> NULL,
     returned |-> FALSE]

\* no forensic call in progress
ForensicIdle ==
    /\ fin = NoFile
    /\ fout = NoForensicResult

\* ---------------------------------------------------------------- document
\* what OCRService.process_document returns
OcrResult(name, number, address, confidence, raw_text_empty) ==
    [name |-> name, number |-> number, address |-> address,
     confidence |-> confidence, raw_text_empty |-> raw_text_empty]

\* the companies_house_* columns before any lookup has stored anything
NoRegistryData ==
    [name |-> NULL, number |-> NoNumber, address |-> NULL, date |-> NULL]

\* the files the Forensic stage is run on in a Dispatcher run
DocFiles ==
    {f \in ForensicInputs :
        /\ f.copy_move_detected /\ f.copy_move_confidence = 45
        /\ ~f.looks_scanned /\ f.jpeg_quality = 75
        /\ f.pdf = NoFile.pdf
        /\ ~f.resolution.suspicious /\ ~f.color.suspicious /\ ~f.noise.suspicious}

\* a document and its surroundings: whether the file is there when the
\* Dispatcher starts, whether Textract finds text, what extract_fields
\* finds in a non-empty text, what the merchant declared, the file as the
\* Forensic stage finds it, how the registry answers, and the ratios
\* SequenceMatcher gives for unequal strings
DocInputs ==
    {i \in [present_at_start : BOOLEAN,
            text_empty : BOOLEAN,
            fields : {OcrResult(NULL, NoNumber, NULL, 92, FALSE),
                      OcrResult("a", CompanyNumber(8, 1), "p", 92, FALSE),
                      OcrResult("b", CompanyNumber(7, 1), NULL, 92, FALSE),
                      OcrResult("a", CompanyNumber(5, 1), NULL, 92, FALSE)},
            merchant : MerchantCases,
            file : DocFiles,
            registry : {"hit", "miss", "http_error", "network_error",
                        "hit_null_address"},
            name_ratio : {80},
            other_ratio : {90}] :
        ~i.present_at_start => i.file.path = "missing"}

NoDocInput ==
    [present_at_start |-> FALSE, text_empty |-> TRUE,
     fields |-> OcrResult(NULL, NoNumber, NULL, 0, TRUE),
     merchant |-> [name |-> NULL, number |-> NoNumber, address |-> NULL],
     file |-> NoFile, registry |-> "none", name_ratio |-> 0, other_ratio |-> 0]

\* the row as the upload endpoint leaves it
NewDocument ==
    [status |-> "pending",
     ocr |-> OcrResult(NULL, NoNumber, NULL, 0, TRUE),
     forensic |-> NoForensicResult,
     registry |-> NoRegistryData,
     result |-> NoResult]

\* no such run in progress
DocIdle ==
    /\ din = NoDocInput
    /\ doc = NewDocument
    /\ dpc = "idle"
    /\ devents = <<>>
    /\ lookups = 0
    /\ polls = 0

\* ------------------------------------------------------------------ review
\* the columns of the job row that manual_review reads or writes
ReviewRow(st, dec, action, notes, id) ==
    [status |-> st, decision |-> dec, reviewer_action |-> action,
     reviewer_notes |-> notes, reviewer_id |-> id]

\* rows a review request can find: never reviewed, and with the decisions
\* the automated flow can have left beside each status
ReviewRows ==
    {ReviewRow(st, dec, NULL, NULL, NULL) :
        st \in {"pending", "processing", "passed", "failed", "review", "manual_review"},
        dec \in Decisions \cup {NULL}} \
    {ReviewRow(st, NULL, NULL, NULL, NULL) : st \in {"passed", "review", "manual_review"}}

\* a request to POST /review/{document_id} and the HTTP status it got
ReviewRequest(action, notes, id, code) ==
    [action |-> action, reviewer_notes |-> notes, reviewer_id |-> id, code |-> code]

NoRequest == ReviewRequest(NULL, NULL, NULL, 0)

\* no review request made
ReviewIdle ==
    /\ rrow = ReviewRow("none", NULL, NULL, NULL, NULL)
    /\ rreq = NoRequest

\* ----------------------------------------------------------- number texts
\* a Python str as the sequence of its characters, or None
Str(s) == [none |-> FALSE, s |-> s]
None == [none |-> TRUE, s |-> <<>>]

\* the company numbers as text: digits, a lower-case letter, a blank
NumberTexts ==
    {None} \cup
    {Str(s) : s \in UNION {[1..n -> {"0", "1", "c", " "}] : n \in 0..MaxNumberLen}}

\* no normalization call made
NormIdle ==
    /\ nin = None
    /\ nout = [returned |-> FALSE, value |-> None]

\* -------------------------------------------------------- VAT registry client
\* HMRCVATService.__init__: the token cache (0: None) and the server token
VatClient(access_token, expires_at, server_token) ==
    [access_token |-> access_token, token_expires_at |-> expires_at,
     server_token |-> server_token]

\* what the last verify_vat_number call did: its number, the bearer token it
\* sent (0: none) and where it came from, whether the token endpoint was
\* called, the HTTP status of the lookup (0: no lookup) and the result
VatCall(n, token, source, requested, code, result) ==
    [n |-> n, token |-> token, source |-> source, requested |-> requested,
     code |-> code, result |-> result]

\* no client constructed
VatIdle ==
    /\ hmrc = VatClient(0, 0, FALSE)
    /\ tclock = 0
    /\ tissued = 0
    /\ trejected = {}
    /\ tlast = VatCall(0, 0, "none", FALSE, 0, NULL)

\* ------------------------------------------------------------ page fallback
\* a temp file of _convert_pdf_to_images: the page it holds and what the
\* sort key of line 201 reads from its name (0: the part after the last
\* underscore, the random part of mkstemp, is not all digits)
PagePath(page, key) == [page |-> page, key |-> key]

\* no fallback conversion in progress
PagesIdle ==
    /\ opc = "idle"
    /\ osaving = {}
    /\ temp_image_paths = <<>>
    /\ results_dict = <<>>
    /\ full_text = <<>>

\* ------------------------------------------------------------ queue worker
\* what a message body can be, as process_message tells them apart
MessageBodies ==
    {"process", "no_action", "bad_json", "not_object", "no_document_id",
     "other_action"}

\* no message sent
QueueIdle ==
    /\ qbody = "none"
    /\ qstate = "none"
    /\ qwork = "idle"
    /\ qreceives = 0
    /\ qcalls = 0
    /\ qdispatched = 0

\* no job row yet, no message, every run slot idle
JobInit ==
    /\ status = "none"
    /\ decision = NULL
    /\ hasNumber = FALSE
    /\ msg = "none"
    /\ wpc = [w \in Workers |-> "poll"]
    /\ wrun = [w \in Workers |-> 0]
    /\ pc = [r \in Runs |-> "idle"]
    /\ ldecision = [r \in Runs |-> NULL]
    /\ evs = [r \in Runs |-> <<>>]
    /\ stages = [r \in Runs |-> <<>>]
    /\ outcome = [r \in Runs |-> "none"]

Init ==
    /\ JobInit
    /\ BusInit
    /\ QueueIdle
    /\ PagesIdle
    /\ VatIdle
    /\ NormIdle
    /\ ReviewIdle
    /\ ScoreIdle
    /\ ForensicIdle
    /\ DocIdle

\* ------------------------------------------------------------------ intake
\* variant: a failed send is only logged, no background task is added
upload_document_noFallback(number, useSqs, sendOk) ==
    /\ status = "none"
    /\ status' = "pending"
    /\ decision' = NULL
    /\ hasNumber' = number
    /\ IF useSqs
         THEN /\ msg' = IF sendOk THEN "visible" ELSE msg
              /\ UNCHANGED pc
         ELSE /\ Schedule(FreeRun)
              /\ UNCHANGED msg
    /\ UNCHANGED <<workerVars, ldecision, evs, stages, outcome>>
    /\ UNCHANGED nonJobVars

\* upload_document: persist the job (status defaults to "pending", decision
\* NULL), then send an SQS message or add a background task.
upload_document(number, useSqs, sendOk) ==
    /\ status = "none"
    /\ status' = "pending"
    /\ decision' = NULL
    /\ hasNumber' = number
    /\ IF useSqs /\ sendOk
         THEN /\ msg' = "visible"
              /\ UNCHANGED pc
         ELSE /\ Schedule(FreeRun)
              /\ UNCHANGED msg
    /\ UNCHANGED <<workerVars, ldecision, evs, stages, outcome>>
    /\ UNCHANGED nonJobVars

\* process_verification (POST /process/{document_id}); also reached from
\* the lambda handler through call_backend_via_alb.  Only the branch that
\* adds the background task changes state.
process_verification ==
    /\ status # "none"
    /\ status # "processing"
    /\ status \notin {"passed", "failed"}
    /\ HasFreeRun
    /\ Schedule(FreeRun)
    /\ UNCHANGED <<dbVars, msg, workerVars, ldecision, evs, stages, outcome>>
    /\ UNCHANGED nonJobVars

\* -------------------------------------------------------------- Dispatcher
\* process_document_verification, lines 50-68: load the job, write status
\* "processing", commit, publish the first progress event.
Begin(r) ==
    /\ pc[r] = "scheduled"
    /\ status # "none"
    /\ WriteStatus("processing")
    /\ UNCHANGED decision
    /\ Publish(r, "initializing", 5, "processing")
    /\ pc' = [pc EXCEPT ![r] = "check_file"]
    /\ UNCHANGED <<msg, workerVars, ldecision, stages, outcome>>
    /\ UNCHANGED nonJobVars

\* lines 71-84: the staged file must exist on this host.
CheckFile(r, exists) ==
    /\ pc[r] = "check_file"
    /\ IF exists
         THEN /\ Publish(r, "file_validation", 10, "processing")
              /\ pc' = [pc EXCEPT ![r] = "ocr"]
              /\ UNCHANGED <<dbVars, outcome>>
         ELSE /\ WriteStatus("failed")
              /\ UNCHANGED <<decision, evs>>
              /\ outcome' = [outcome EXCEPT ![r] = "missing_file"]
              /\ pc' = [pc EXCEPT ![r] = "done"]
    /\ UNCHANGED <<msg, workerVars, ldecision, stages>>
    /\ UNCHANGED nonJobVars

\* variant: a field-parse event (percent 30) between the two OCR events, as
\* the type-specific pipelines publish it
OcrStage_extra30(r) ==
    /\ pc[r] = "ocr"
    /\ evs' = [evs EXCEPT ![r] = @ \o <<Event("ocr_extraction", 20, "processing"),
                                         Event("llm_extraction", 30, "processing"),
                                         Event("ocr_complete", 40, "processing")>>]
    /\ stages' = [stages EXCEPT ![r] = Append(Append(@, "Extract"), "Parse")]
    /\ pc' = [pc EXCEPT ![r] = "forensic"]
    /\ UNCHANGED <<dbVars, msg, workerVars, ldecision, outcome>>
    /\ UNCHANGED nonJobVars

\* lines 86-100: OCRService.process_document runs extract_text_from_pdf and
\* then extract_fields, and catches every Exception itself.
OcrStage(r) ==
    /\ pc[r] = "ocr"
    /\ Publish2(r, Event("ocr_extraction", 20, "processing"),
                   Event("ocr_complete", 40, "processing"))
    /\ stages' = [stages EXCEPT ![r] = Append(Append(@, "Extract"), "Parse")]
    /\ pc' = [pc EXCEPT ![r] = "forensic"]
    /\ UNCHANGED <<dbVars, msg, workerVars, ldecision, outcome>>
    /\ UNCHANGED nonJobVars

\* variant: forensic_complete published with percent 30 instead of 60
ForensicStage_lowPercent(r) ==
    /\ pc[r] = "forensic"
    /\ Publish2(r, Event("forensic_analysis", 50, "processing"),
                   Event("forensic_complete", 30, "processing"))
    /\ stages' = [stages EXCEPT ![r] = Append(@, "Forensic")]
    /\ pc' = [pc EXCEPT ![r] = "registry"]
    /\ UNCHANGED <<dbVars, msg, workerVars, ldecision, outcome>>
    /\ UNCHANGED nonJobVars

\* variant: the run goes from Forensic straight to scoring
ForensicStage_skipsRegistry(r) ==
    /\ pc[r] = "forensic"
    /\ Publish2(r, Event("forensic_analysis", 50, "processing"),
                   Event("forensic_complete", 60, "processing"))
    /\ stages' = [stages EXCEPT ![r] = Append(@, "Forensic")]
    /\ pc' = [pc EXCEPT ![r] = "score"]
    /\ UNCHANGED <<dbVars, msg, workerVars, ldecision, outcome>>
    /\ UNCHANGED nonJobVars

\* lines 102-117: ForensicService.process_document catches every Exception.
ForensicStage(r) ==
    /\ pc[r] = "forensic"
    /\ Publish2(r, Event("forensic_analysis", 50, "processing"),
                   Event("forensic_complete", 60, "processing"))
    /\ stages' = [stages EXCEPT ![r] = Append(@, "Forensic")]
    /\ pc' = [pc EXCEPT ![r] = "registry"]
    /\ UNCHANGED <<dbVars, msg, workerVars, ldecision, outcome>>
    /\ UNCHANGED nonJobVars

\* lines 119-157: lookup when a company number is known, else skipped.
\* extract_company_data may raise (e.g. on a profile whose
\* registered_office_address is null); the exception reaches line 242.
RegistryStage(r, raises) ==
    /\ pc[r] = "registry"
    /\ IF hasNumber /\ raises
         THEN /\ Publish(r, "companies_house_lookup", 70, "processing")
              /\ outcome' = [outcome EXCEPT ![r] = "error"]
              /\ pc' = [pc EXCEPT ![r] = "err_db"]
              /\ UNCHANGED stages
         ELSE /\ Publish2(r, Event("companies_house_lookup", 70, "processing"),
                   Event(IF hasNumber THEN "companies_house_complete"
                                      ELSE "companies_house_skipped", 80, "processing"))
              /\ stages' = [stages EXCEPT ![r] =
                               Append(@, IF hasNumber THEN "Registry" ELSE "RegistrySkipped")]
              /\ pc' = [pc EXCEPT ![r] = "score"]
              /\ UNCHANGED outcome
    /\ UNCHANGED <<dbVars, msg, workerVars, ldecision>>
    /\ UNCHANGED nonJobVars

\* lines 159-215: result is the decision process_scoring returned, or
\* "raise".  On success the decision is committed and reloaded (line 204);
\* on an exception decision FAIL is committed and the exception re-raised.
ScoreStage(r, result) ==
    /\ pc[r] = "score"
    /\ Publish(r, "score_calculation", 90, "processing")
    /\ IF result \in Decisions
         THEN /\ decision' = result
              /\ ldecision' = [ldecision EXCEPT ![r] = result]
              /\ stages' = [stages EXCEPT ![r] = Append(@, "Score")]
              /\ pc' = [pc EXCEPT ![r] = "step5"]
              /\ UNCHANGED outcome
         ELSE /\ decision' = "FAIL"
              /\ outcome' = [outcome EXCEPT ![r] = "error"]
              /\ pc' = [pc EXCEPT ![r] = "err_db"]
              /\ UNCHANGED <<ldecision, stages>>
    /\ UNCHANGED <<status, hasNumber, msg, workerVars>>
    /\ UNCHANGED nonJobVars

\* lines 219-227: status derived from the decision held by the session
StatusOf(d) ==
    CASE d = "PASS" -> "passed"
      [] d = "FAIL" -> "failed"
      [] d = "REVIEW" -> "review"

\* lines 217-230: write the final status and commit.
Step5(r) ==
    /\ pc[r] = "step5"
    /\ WriteStatus(StatusOf(ldecision[r]))
    /\ UNCHANGED decision
    /\ pc' = [pc EXCEPT ![r] = "final_pub"]
    /\ UNCHANGED <<msg, workerVars, ldecision, evs, stages, outcome>>
    /\ UNCHANGED nonJobVars

\* lines 231-240: document.status is reloaded after the commit (line 231)
\* and the final event carries it; the session is closed at line 267.
FinalPublish(r) ==
    /\ pc[r] = "final_pub"
    /\ Publish(r, "complete", 100, status)
    /\ outcome' = [outcome EXCEPT ![r] = "ok"]
    /\ ldecision' = [ldecision EXCEPT ![r] = NULL]
    /\ pc' = [pc EXCEPT ![r] = "done"]
    /\ UNCHANGED <<dbVars, msg, workerVars, stages>>
    /\ UNCHANGED nonJobVars

\* variant: the handler writes status "failed" but not the decision, as the
\* missing-file exit does
ErrHandler_statusOnly(r) ==
    /\ pc[r] = "err_db"
    /\ WriteStatus("failed")
    /\ UNCHANGED decision
    /\ pc' = [pc EXCEPT ![r] = "err_pub"]
    /\ UNCHANGED <<msg, workerVars, ldecision, evs, stages, outcome>>
    /\ UNCHANGED nonJobVars

\* lines 242-258: refresh, status "failed", decision "FAIL", commit.
ErrHandler(r) ==
    /\ pc[r] = "err_db"
    /\ WriteStatus("failed")
    /\ decision' = "FAIL"
    /\ pc' = [pc EXCEPT ![r] = "err_pub"]
    /\ UNCHANGED <<msg, workerVars, ldecision, evs, stages, outcome>>
    /\ UNCHANGED nonJobVars

\* lines 260-264: the error progress event.
ErrPublish(r) ==
    /\ pc[r] = "err_pub"
    /\ Publish(r, "error", 0, "failed")
    /\ pc' = [pc EXCEPT ![r] = "done"]
    /\ UNCHANGED <<dbVars, msg, workerVars, ldecision, stages, outcome>>
    /\ UNCHANGED nonJobVars

\* ------------------------------------------------------------ queue worker
\* worker.main lines 76-89 and process_message lines 36-46: receive the
\* message (it becomes invisible) and call the Dispatcher synchronously.
WorkerReceive(w) ==
    /\ wpc[w] = "poll"
    /\ \A v \in Workers : v < w => wpc[v] # "poll"
    /\ msg = "visible"
    /\ HasFreeRun
    /\ msg' = "inflight"
    /\ Schedule(FreeRun)
    /\ wrun' = [wrun EXCEPT ![w] = FreeRun]
    /\ wpc' = [wpc EXCEPT ![w] = "running"]
    /\ UNCHANGED <<dbVars, ldecision, evs, stages, outcome>>
    /\ UNCHANGED nonJobVars

\* process_message lines 44-58: for action "process" the call at line 46
\* returns normally on every exit path of the Dispatcher (line 242 catches
\* every Exception), so line 48 returns True.
process_message(r) == TRUE

\* worker.main lines 89-100: delete the message iff process_message
\* returned True.
WorkerFinish(w) ==
    /\ wpc[w] = "running"
    /\ pc[wrun[w]] = "done"
    /\ msg' = IF process_message(wrun[w]) THEN "deleted" ELSE msg
    /\ wpc' = [wpc EXCEPT ![w] = "poll"]
    /\ wrun' = [wrun EXCEPT ![w] = 0]
    /\ UNCHANGED <<dbVars, pc, ldecision, evs, stages, outcome>>
    /\ UNCHANGED nonJobVars

\* The queue: VisibilityTimeout=900 (worker.main line 80) expires while the
\* message is still held, and it becomes visible again.
VisibilityTimeout ==
    /\ msg = "inflight"
    /\ msg' = "visible"
    /\ UNCHANGED <<dbVars, workerVars, pc, ldecision, evs, stages, outcome>>
    /\ UNCHANGED nonJobVars

\* --------------------------------------------------------------- reviewer
\* manual_review (POST /review/{document_id}); rejected requests (HTTP 400)
\* change nothing.
manual_review(action) ==
    /\ status = "review"
    /\ action \in ReviewActions
    /\ CASE action = "APPROVE" -> WriteStatus("passed") /\ decision' = "PASS"
         [] action = "REJECT" -> WriteStatus("failed") /\ decision' = "FAIL"
         [] action = "ESCALATE" -> WriteStatus("manual_review") /\ UNCHANGED decision
    /\ UNCHANGED <<msg, workerVars, pc, ldecision, evs, stages, outcome>>
    /\ UNCHANGED nonJobVars

\* ------------------------------------------------------ administrative stop
\* stop_specific_document: a job in "processing" becomes failed / FAIL.
stop_specific_document ==
    /\ status = "processing"
    /\ WriteStatus("failed")
    /\ decision' = "FAIL"
    /\ UNCHANGED <<msg, workerVars, pc, ldecision, evs, stages, outcome>>
    /\ UNCHANGED nonJobVars

\* ------------------------------------------------------------------- Next
DispatcherStep(r) ==
    \/ Begin(r)
    \/ \E exists \in BOOLEAN : CheckFile(r, exists)
    \/ OcrStage(r)
    \/ ForensicStage(r)
    \/ \E raises \in BOOLEAN : RegistryStage(r, raises)
    \/ \E result \in Decisions \cup {"raise"} : ScoreStage(r, result)
    \/ Step5(r)
    \/ FinalPublish(r)
    \/ ErrHandler(r)
    \/ ErrPublish(r)

Next ==
    \/ \E number \in BOOLEAN, useSqs \in BOOLEAN, sendOk \in BOOLEAN :
          upload_document(number, useSqs, sendOk)
    \/ process_verification
    \/ \E r \in Runs : DispatcherStep(r)
    \/ \E w \in Workers : WorkerReceive(w)
    \/ \E w \in Workers : WorkerFinish(w)
    \/ VisibilityTimeout
    \/ \E action \in ReviewActions : manual_review(action)
    \/ stop_specific_document

Spec == Init /\ [][Next]_vars

\* ------------------------------------------------------------- helpers
Percents(r) == [i \in 1..Len(evs[r]) |-> evs[r][i].percent]
Range(q) == {q[i] : i \in 1..Len(q)}
ErrorEvent == Event("error", 0, "failed")
IsClosing(e) == (e.percent = 100 /\ e.status \in AutoTerminal) \/ e = ErrorEvent

\* a step of run r that writes DocumentVerification.status
DispatcherWrite(r) ==
    Begin(r) \/ CheckFile(r, FALSE) \/ Step5(r) \/ ErrHandler(r)

\* ------------------------------------------------------------------ claims

\* C1: every status change is pending -> processing, processing -> passed |
\* failed | review, or review -> passed | failed | manual_review by a
\* reviewer action; nothing else changes the status of an existing job.
C1_StatusTransitions ==
    [][status' # status =>
          \/ status = "none" /\ status' = "pending"
          \/ status = "pending" /\ status' = "processing"
          \/ status = "processing" /\ status' \in AutoTerminal
          \/ /\ status = "review"
             /\ status' \in {"passed", "failed", "manual_review"}
             /\ \E action \in ReviewActions : manual_review(action)]_vars

\* C2: a job reaches an automated terminal status exactly once: once a
\* terminal status has been written, no step of any Dispatcher run writes
\* status again.  (Up to the first such write the status only moves forward,
\* so at that write the job still holds a terminal or reviewer status.)
C2_TerminalOnce ==
    [][\A r \in Runs :
          status \in AutoTerminal \cup {"manual_review"} => ~DispatcherWrite(r)]_vars

\* C3: a job whose status is passed, failed or review has a decision.
C3_TerminalHasDecision ==
    status \in AutoTerminal => decision # NULL

\* C4: Process invoked on a job whose status is passed, failed or review
\* changes neither status nor decision and publishes no progress event.
C4_TerminalNoOp ==
    [][\A r \in Runs :
          (pc[r] = "scheduled" /\ pc'[r] # "scheduled" /\ status \in AutoTerminal)
              => (status' = status /\ decision' = decision /\ evs'[r] = evs[r])]_vars

\* C5 (as claimed): the events of a run are non-decreasing in percent on
\* every path.
C5_PercentMonotone ==
    \A r \in Runs : \A i, j \in 1..Len(evs[r]) :
        i < j => evs[r][i].percent <= evs[r][j].percent

\* C5 (amended): the events of a run are non-decreasing in percent up to the
\* closing error event; the error event (percent 0) is published only as
\* the last event of a run.
C5_PercentMonotoneUntilError ==
    \A r \in Runs :
        /\ \A i \in 1..(Len(evs[r]) - 1) :
              /\ evs[r][i] # ErrorEvent
              /\ evs[r][i + 1] # ErrorEvent => evs[r][i].percent <= evs[r][i + 1].percent
        /\ (evs[r] # <<>> /\ evs[r][Len(evs[r])] = ErrorEvent) => pc[r] = "done"

C5_Witness ==
    \E r \in Runs : pc[r] = "done" /\ outcome[r] = "error" /\ Len(evs[r]) >= 8

\* C6: a finished run that published anything ends its events with exactly
\* one closing event (percent 100 with a terminal status, or the error event).
C6_ClosingEvent ==
    \A r \in Runs :
        (pc[r] = "done" /\ evs[r] # <<>>) =>
            /\ IsClosing(evs[r][Len(evs[r])])
            /\ Cardinality({i \in 1..Len(evs[r]) : IsClosing(evs[r][i])}) = 1

\* C7 (as claimed): a run that completes without error publishes exactly the
\* percents 5, 10, 15, 20, 30, 40, 50, 60, 70, 80, 90, 100 in this order.
C7_ScheduleClaimed ==
    \A r \in Runs :
        (pc[r] = "done" /\ outcome[r] = "ok") =>
            Percents(r) = <<5, 10, 15, 20, 30, 40, 50, 60, 70, 80, 90, 100>>

\* C7 (amended): a run that completes without error publishes exactly the
\* percents 5, 10, 20, 40, 50, 60, 70, 80, 90, 100 in this order, one event
\* each.
C7_ScheduleCoded ==
    \A r \in Runs :
        (pc[r] = "done" /\ outcome[r] = "ok") =>
            Percents(r) = <<5, 10, 20, 40, 50, 60, 70, 80, 90, 100>>

C7_Witness ==
    \E r \in Runs : pc[r] = "done" /\ outcome[r] = "ok" /\ Len(evs[r]) = 10

\* what holds of a run whose registry or scoring stage raised
ErrorPathState(r) ==
    outcome[r] = "error" =>
       /\ pc[r] \in {"err_db", "err_pub", "done"}
       /\ pc[r] = "done" => evs[r][Len(evs[r])] = ErrorEvent
       /\ (/\ pc[r] \in {"err_pub", "done"}
           /\ \A q \in Runs \ {r} : pc[q] \in {"idle", "scheduled"})
             => (status = "failed" /\ decision = "FAIL")

StageOrder == <<"Extract", "Parse", "Forensic", "Registry", "Score">>
StageName(s) == IF s = "RegistrySkipped" THEN "Registry" ELSE s
InOrder(r) ==
    /\ Len(stages[r]) <= Len(StageOrder)
    /\ \A i \in 1..Len(stages[r]) : StageName(stages[r][i]) = StageOrder[i]

\* C9 (as claimed): the stages of a run complete in the order Extract, Parse,
\* Forensic, Registry (or skipped), Score, and a run has written a terminal
\* status only after its Score stage completed.
C9_StageOrderClaimed ==
    \A r \in Runs :
        /\ InOrder(r)
        /\ pc[r] \in {"final_pub", "err_pub", "done"} => "Score" \in Range(stages[r])

\* C9 (amended): the stages of a run complete in the order Extract, Parse,
\* Forensic, Registry (or skipped), Score, and the status derived from the
\* decision (step 5) is written only after Score completed; the missing-file
\* exit and the exception handler write failed without Score.
C9_StageOrderCoded ==
    \A r \in Runs :
        /\ InOrder(r)
        /\ (pc[r] = "final_pub" \/ outcome[r] = "ok") => stages[r] \in
              {<<"Extract", "Parse", "Forensic", "Registry", "Score">>,
               <<"Extract", "Parse", "Forensic", "RegistrySkipped", "Score">>}
        /\ pc[r] = "step5" => "Score" \in Range(stages[r])

C9_Witness ==
    \E r \in Runs :
        /\ pc[r] = "final_pub"
        /\ stages[r] = <<"Extract", "Parse", "Forensic", "RegistrySkipped", "Score">>

\* C10: the worker deletes the message iff the Dispatcher run it invoked
\* for the message succeeded; after a failed run the message is left.
C10_AckOnlyOnSuccess ==
    [][\A w \in Workers :
          WorkerFinish(w) => (msg' = "deleted" <=> outcome[wrun[w]] = "ok")]_vars

\* ============================================================ Progress Bus
\* ProgressService for one document_id.  The Dispatcher runs are sync
\* functions executed in the thread pool; each update_progress_sync call
\* drives update_progress on the event loop of the run's own thread, while
\* the streams run on the server's event loop.  Steps of different threads
\* interleave between the statements below; a block under self._lock is one
\* step.

\* the first events of a run (lines 68, 84, 88, 100, ... of verification.py)
ScheduleSteps ==
    <<Event("initializing", 5, "processing"),
      Event("file_validation", 10, "processing"),
      Event("ocr_extraction", 20, "processing"),
      Event("ocr_complete", 40, "processing"),
      Event("forensic_analysis", 50, "processing"),
      Event("forensic_complete", 60, "processing"),
      Event("companies_house_lookup", 70, "processing"),
      Event("companies_house_complete", 80, "processing"),
      Event("score_calculation", 90, "processing")>>

\* the k-th event a run publishes: its last one is the closing event
RunEvent(k) ==
    IF k >= MaxEvents \/ k > Len(ScheduleSteps)
      THEN Event("complete", 100, "passed")
      ELSE ScheduleSteps[k]

\* statuses on which event_generator leaves its loop (progress.py line 34)
StreamClosing == {"passed", "failed", "review", "manual_review"}

\* list.remove(queue), ValueError ignored
Remove(q, s) == SelectSeq(q, LAMBDA x : x # s)

\* update_progress lines 61-68: build progress_data, stamped with utcnow().
\* Runs make their first call in the order of their numbers.
update_progress_build(r) ==
    /\ upc[r] = "idle"
    /\ ucount[r] < MaxEvents
    /\ \A q \in Runs : q < r => ucount[q] > 0
    /\ clock' = clock + 1
    /\ uev' = [uev EXCEPT ![r] = ProgressData(RunEvent(ucount[r] + 1), clock + 1)]
    /\ ucount' = [ucount EXCEPT ![r] = @ + 1]
    /\ utargets' = [utargets EXCEPT ![r] = {}]
    /\ upc' = [upc EXCEPT ![r] = "store"]
    /\ UNCHANGED <<progress_data, connections, listGen, received, taken, spc,
                   uidx, ugen>>
    /\ UNCHANGED nonBusVars

\* lines 70-71: under the lock, retain the event as the latest of the job
update_progress_store(r) ==
    /\ upc[r] = "store"
    /\ progress_data' = uev[r]
    /\ upc' = [upc EXCEPT ![r] = "check"]
    /\ UNCHANGED <<connections, listGen, received, taken, spc, uev, uidx, ugen,
                   utargets, ucount, clock>>
    /\ UNCHANGED nonBusVars

\* lines 74-76, outside the lock: test the key and take the list iterator
update_progress_iter(r) ==
    /\ upc[r] = "check"
    /\ IF connections = <<>>
         THEN /\ upc' = [upc EXCEPT ![r] = "idle"]
              /\ UNCHANGED <<uidx, ugen, utargets>>
         ELSE /\ upc' = [upc EXCEPT ![r] = "loop"]
              /\ uidx' = [uidx EXCEPT ![r] = 1]
              /\ ugen' = [ugen EXCEPT ![r] = listGen]
              /\ utargets' = [utargets EXCEPT ![r] = Range(connections)]
    /\ UNCHANGED <<progress_data, connections, listGen, received, taken, spc,
                   uev, ucount, clock>>
    /\ UNCHANGED nonBusVars

\* lines 76-78: one turn of the for loop.  The list iterator holds an index
\* into the list object; the loop ends when the index is past its end (the
\* list object that was removed from _connections is empty).
update_progress_put(r) ==
    /\ upc[r] = "loop"
    /\ IF ugen[r] = listGen /\ uidx[r] <= Len(connections)
         THEN /\ received' = [received EXCEPT ![connections[uidx[r]]] =
                                  Append(@, uev[r])]
              /\ uidx' = [uidx EXCEPT ![r] = @ + 1]
              /\ UNCHANGED <<upc, ugen>>
         ELSE /\ upc' = [upc EXCEPT ![r] = "idle"]
              /\ uidx' = [uidx EXCEPT ![r] = 0]
              /\ ugen' = [ugen EXCEPT ![r] = 0]
              /\ UNCHANGED received
    /\ UNCHANGED <<progress_data, connections, listGen, taken, spc, uev,
                   utargets, ucount, clock>>
    /\ UNCHANGED nonBusVars

\* subscribe lines 24-36, under the lock: register a new queue and replay
\* the retained event.  Streams are opened in the order of their numbers.
subscribe(s) ==
    /\ spc[s] = "new"
    /\ \A q \in Streams : q < s => spc[q] # "new"
    /\ connections' = Append(connections, s)
    /\ received' = [received EXCEPT ![s] =
                        IF progress_data # NoData THEN <<progress_data>> ELSE <<>>]
    /\ spc' = [spc EXCEPT ![s] = "waiting"]
    /\ UNCHANGED <<progress_data, listGen, taken, upc, uev, uidx, ugen,
                   utargets, ucount, clock>>
    /\ UNCHANGED nonBusVars

\* event_generator lines 27-36: queue.get() returns the oldest event, it is
\* sent to the client, and a closing status ends the loop.
event_generator_get(s) ==
    /\ spc[s] = "waiting"
    /\ taken[s] < Len(received[s])
    /\ taken' = [taken EXCEPT ![s] = @ + 1]
    /\ spc' = [spc EXCEPT ![s] =
                  IF received[s][taken[s] + 1].event.status \in StreamClosing
                    THEN "finally" ELSE "waiting"]
    /\ UNCHANGED <<progress_data, connections, listGen, received, upc, uev,
                   uidx, ugen, utargets, ucount, clock>>
    /\ UNCHANGED nonBusVars

\* the client goes away: the generator is closed while it waits at line 27
\* and control passes to the finally block (line 44).
client_disconnect(s) ==
    /\ spc[s] = "waiting"
    /\ spc' = [spc EXCEPT ![s] = "finally"]
    /\ UNCHANGED <<progress_data, connections, listGen, received, taken, upc,
                   uev, uidx, ugen, utargets, ucount, clock>>
    /\ UNCHANGED nonBusVars

\* unsubscribe lines 40-50, under the lock (called at progress.py line 45):
\* remove the queue; delete the list when it became empty.  The queue is
\* unreachable afterwards and its contents are dropped.
unsubscribe(s) ==
    /\ spc[s] = "finally"
    /\ connections' = Remove(connections, s)
    /\ listGen' = IF connections # <<>> /\ Remove(connections, s) = <<>>
                    THEN listGen + 1 ELSE listGen
    /\ received' = [received EXCEPT ![s] = <<>>]
    /\ taken' = [taken EXCEPT ![s] = 0]
    /\ spc' = [spc EXCEPT ![s] = "closed"]
    /\ UNCHANGED <<progress_data, upc, uev, uidx, ugen, utargets, ucount, clock>>
    /\ UNCHANGED nonBusVars

\* get_progress lines 90-93
get_progress == progress_data

BusNext ==
    \/ \E r \in Runs : update_progress_build(r)
    \/ \E r \in Runs : update_progress_store(r)
    \/ \E r \in Runs : update_progress_iter(r)
    \/ \E r \in Runs : update_progress_put(r)
    \/ \E s \in Streams : subscribe(s)
    \/ \E s \in Streams : event_generator_get(s)
    \/ \E s \in Streams : client_disconnect(s)
    \/ \E s \in Streams : unsubscribe(s)

BusSpec == Init /\ [][BusNext]_vars

\* ------------------------------------------------- claims on the Progress Bus

\* C11: when an update_progress call has returned, every stream that was
\* registered when its broadcast began and is still registered has the event
\* on its queue, and no queue ever receives the same published event twice
\* (not once from the replay in subscribe and once more from the broadcast).
C11_DeliveredOnce ==
    /\ \A r \in Runs, s \in Streams :
          (/\ upc[r] = "idle" /\ uev[r] # NoData
           /\ s \in utargets[r] /\ s \in Range(connections))
              => \E i \in 1..Len(received[s]) : received[s][i] = uev[r]
    /\ \A s \in Streams : \A i, j \in 1..Len(received[s]) :
          i < j => received[s][i] # received[s][j]

\* C12: every queue holds its events in the order in which they were
\* published (the order of their timestamps), and get_progress is never
\* older than an event whose update_progress call has stored it.
C12_PublicationOrder ==
    /\ \A s \in Streams : \A i \in 1..(Len(received[s]) - 1) :
          received[s][i].timestamp <= received[s][i + 1].timestamp
    /\ \A r \in Runs :
          (uev[r] # NoData /\ upc[r] \in {"check", "loop", "idle"})
              => get_progress.timestamp >= uev[r].timestamp

\* C13: once the update_progress call of a closing event has returned, every
\* stream that was registered when its broadcast began and is still open has
\* the closing event on its queue; a stream opened while the closing event
\* is retained receives it first; and a stream that has sent a closing event
\* to its client has left its loop.
C13_StreamCloses ==
    /\ \A r \in Runs, s \in Streams :
          (/\ upc[r] = "idle" /\ uev[r] # NoData /\ IsClosing(uev[r].event)
           /\ s \in utargets[r] /\ spc[s] = "waiting")
              => \E i \in 1..Len(received[s]) : received[s][i] = uev[r]
    /\ \A s \in Streams :
          (taken[s] > 0 /\ IsClosing(received[s][taken[s]].event))
              => spc[s] \in {"finally", "closed"}

\* ========================================================= Scoring Stage
Min(a, b) == IF a <= b THEN a ELSE b
Max(a, b) == IF a >= b THEN a ELSE b

\* normalize_company_number on a string of digits: 6 and 7 digits are
\* left-padded with zeros to 8 (the value is kept), 8 digits pass, any other
\* length returns the original string.
normalize_company_number(n) ==
    IF n = NoNumber THEN NoNumber
    ELSE IF n.len \in {6, 7} THEN CompanyNumber(8, n.val)
    ELSE n

\* calculate_similarity on two strings, in percent: 0 when either is None
\* or empty, 100 when equal, else SequenceMatcher's ratio
calculate_similarity(a, b, ratio) ==
    IF a = NULL \/ b = NULL THEN 0
    ELSE IF a = b THEN 100
    ELSE ratio

\* calculate_similarity on two company numbers
number_similarity(a, b, ratio) ==
    IF a = NoNumber \/ b = NoNumber THEN 0
    ELSE IF a = b THEN 100
    ELSE ratio

\* calculate_ocr_score: min(30, confidence / 100 * 30)
calculate_ocr_score(confidence) ==
    IF confidence = NoConfidence \/ confidence <= 0 THEN 0
    ELSE Min(30 * Unit, (confidence * 30 * Unit) \div 100)

\* calculate_registry_score: 40 on equal normalized numbers, else sim * 40
calculate_registry_score(ocr_number, ch_number, ratio) ==
    IF ocr_number = NoNumber \/ ch_number = NoNumber THEN 0
    ELSE IF normalize_company_number(ocr_number) = normalize_company_number(ch_number)
      THEN 40 * Unit
    ELSE (ratio * 40 * Unit) \div 100

\* calculate_provided_data_accuracy: weights 0.4, 0.4, 0.2 of 30
calculate_provided_data_accuracy(i) ==
    LET m == i.merchant
        ch == i.registry
        name == IF m.name # NULL /\ ch.name # NULL
                  THEN (calculate_similarity(m.name, ch.name, i.name_ratio) * 12 * Unit) \div 100
                  ELSE 0
        num == IF m.number # NoNumber /\ ch.number # NoNumber
                  THEN (number_similarity(m.number, ch.number, i.other_ratio) * 12 * Unit) \div 100
                  ELSE 0
        addr == IF m.address # NULL /\ ch.address # NULL
                  THEN (calculate_similarity(m.address, ch.address, i.other_ratio) * 6 * Unit) \div 100
                  ELSE 0
    IN  Min(30 * Unit, name + num + addr)

\* lines 245-261: the name component for similarity s (percent), weight 0.5
NameScore(s) ==
    IF s < 98
      THEN IF s < 90
             THEN (s * Max(0, s - 70) * 15 * Unit) \div 2000
             ELSE (s * (s - 90) * 15 * Unit) \div 800
      ELSE (s * 15 * Unit) \div 100

\* lines 286-295: the address component for similarity s, weight 0.2
AddressScore(s) ==
    IF s < 30 THEN (s * 42 * Unit) \div 1000
    ELSE IF s < 50 THEN (s * 54 * Unit) \div 1000
    ELSE (s * 6 * Unit) \div 100

\* calculate_ocr_comparison_score
calculate_ocr_comparison_score(i) ==
    LET ch == i.registry
        hasName == i.ocr_name # NULL /\ ch.name # NULL
        name_sim == calculate_similarity(i.ocr_name, ch.name, i.name_ratio)
        name == IF hasName THEN NameScore(name_sim) ELSE 0
        num == IF i.ocr_number # NoNumber /\ ch.number # NoNumber
                 THEN (number_similarity(normalize_company_number(i.ocr_number),
                                         normalize_company_number(ch.number),
                                         i.other_ratio) * 9 * Unit) \div 100
                 ELSE 0
        addr == IF i.ocr_address # NULL /\ ch.address # NULL
                  THEN AddressScore(calculate_similarity(i.ocr_address, ch.address,
                                                         i.other_ratio))
                  ELSE 0
        total == name + num + addr
        capped == IF hasName /\ name_sim < 95
                    THEN Min(total, IF name_sim < 90 THEN 20 * Unit ELSE 25 * Unit)
                    ELSE total
    IN  IF ch.name = NULL /\ ch.number = NoNumber /\ ch.address = NULL /\ ch.date = NULL
          THEN 0
          ELSE Min(30 * Unit, capped)

RECURSIVE SumSeq(_)
SumSeq(q) == IF q = <<>> THEN 0 ELSE Head(q) + SumSeq(Tail(q))

\* calculate_data_match_score: the mean of the similarities both sides
\* populate, times 100 (rounded down to 1/Unit)
calculate_data_match_score(i) ==
    LET ch == i.registry
        m == i.merchant
        nameS(a) == IF a # NULL /\ ch.name # NULL
                      THEN <<calculate_similarity(a, ch.name, i.name_ratio)>> ELSE <<>>
        numS(a) == IF a # NoNumber /\ ch.number # NoNumber
                     THEN <<number_similarity(normalize_company_number(a),
                                              normalize_company_number(ch.number),
                                              i.other_ratio)>>
                     ELSE <<>>
        addrS(a) == IF a # NULL /\ ch.address # NULL
                      THEN <<calculate_similarity(a, ch.address, i.other_ratio)>> ELSE <<>>
        scores == nameS(i.ocr_name) \o numS(i.ocr_number) \o addrS(i.ocr_address)
                  \o nameS(m.name) \o numS(m.number) \o addrS(m.address)
    IN  IF scores = <<>> THEN 0 ELSE (SumSeq(scores) * Unit) \div Len(scores)

\* variant: the composite is returned without the upper clamp
calculate_final_score_unclamped(ocr_score, registry_score, provided_score, ocr_comparison_score, forensic_penalty) ==
    Max(0, ocr_score + registry_score + provided_score + ocr_comparison_score
           - forensic_penalty)

\* calculate_final_score: min(100, max(0, base - forensic_penalty))
calculate_final_score(ocr_score, registry_score, provided_score, ocr_comparison_score, forensic_penalty) ==
    Min(100 * Unit,
        Max(0, ocr_score + registry_score + provided_score + ocr_comparison_score
               - forensic_penalty))

\* lines 357-362: the decision by score alone
ThresholdDecision(final_score) ==
    IF final_score >= 75 * Unit THEN "PASS"
    ELSE IF final_score >= 50 * Unit THEN "REVIEW"
    ELSE "FAIL"

\* make_decision, with name_sim the similarity of the two names when both
\* are given (has_names).  The test name_sim < 0.90 comes first; the elif
\* name_sim < 0.85 after it is never taken.
make_decision(final_score, has_names, name_sim) ==
    IF has_names /\ name_sim < 90 THEN "REVIEW"
    ELSE IF has_names /\ name_sim >= 90 /\ name_sim < 85 THEN "FAIL"
    ELSE ThresholdDecision(final_score)

\* process_scoring (both company variants call it)
process_scoring(i) ==
    LET ocr == calculate_ocr_score(i.confidence)
        reg == calculate_registry_score(i.ocr_number, i.registry.number, i.other_ratio)
        cmp == calculate_ocr_comparison_score(i)
        prov == calculate_provided_data_accuracy(i)
        dm == calculate_data_match_score(i)
        final == calculate_final_score(ocr, reg, prov, cmp, i.forensic_penalty)
        dec == make_decision(final, i.ocr_name # NULL /\ i.registry.name # NULL,
                   calculate_similarity(i.ocr_name, i.registry.name, i.name_ratio))
    IN  ScoreResult("company", ocr, reg, cmp, prov, dm, final, dec)

\* process_vat_scoring: business name, VAT number and address take the place
\* of the company fields; no ocr_comparison_score component
process_vat_scoring(i) ==
    LET ocr == calculate_ocr_score(i.confidence)
        reg == calculate_registry_score(i.ocr_number, i.registry.number, i.other_ratio)
        prov == calculate_provided_data_accuracy(i)
        dm == calculate_data_match_score(i)
        final == calculate_final_score(ocr, reg, prov, 0, i.forensic_penalty)
    IN  ScoreResult("vat", ocr, reg, 0, prov, dm, final, ThresholdDecision(final))

\* process_director_scoring: the registry name is the matched officer
\* (verified), the address slot carries the date of birth; provided_score
\* weights name 0.5, date of birth 0.3, company number 0.2
process_director_scoring(i) ==
    LET m == i.merchant
        ch == i.registry
        ocr == calculate_ocr_score(i.confidence)
        reg == IF ch.name # NULL THEN 40 * Unit ELSE 0
        prov == Min(30 * Unit,
                    (calculate_similarity(m.name, ch.name, i.name_ratio) * 15 * Unit) \div 100
                    + (calculate_similarity(m.address, ch.address, i.other_ratio) * 9 * Unit) \div 100
                    + (number_similarity(m.number, ch.number, i.other_ratio) * 6 * Unit) \div 100)
        dm == calculate_data_match_score(i)
        final == calculate_final_score(ocr, reg, prov, 0, i.forensic_penalty)
    IN  ScoreResult("director", ocr, reg, 0, prov, dm, final, ThresholdDecision(final))

\* the scoring step of a pipeline: the call returns its result
ScoreCall(result) ==
    /\ sout = NoResult
    /\ sout' = result
    /\ UNCHANGED sin
    /\ UNCHANGED nonScoreVars

ScoreInit ==
    /\ JobInit
    /\ BusInit
    /\ QueueIdle
    /\ PagesIdle
    /\ VatIdle
    /\ NormIdle
    /\ ReviewIdle
    /\ ForensicIdle
    /\ DocIdle
    /\ sin \in ScoreInputs
    /\ sout = NoResult

ScoreNext ==
    \/ ScoreCall(process_scoring(sin))
    \/ ScoreCall(process_vat_scoring(sin))
    \/ ScoreCall(process_director_scoring(sin))

ScoreSpec == ScoreInit /\ [][ScoreNext]_vars

\* ------------------------------------------------ claims on the Scoring Stage

\* C14: make_decision returns FAIL when the OCR-vs-registry name similarity
\* is below 0.85, otherwise REVIEW when it is below 0.90, otherwise (at least
\* 0.90, or either name missing) PASS for final_score >= 75, REVIEW for
\* 50 <= final_score < 75 and FAIL below 50.
C14_DecisionPolicy ==
    sout.variant = "company" =>
        LET has_names == sin.ocr_name # NULL /\ sin.registry.name # NULL
            name_sim == calculate_similarity(sin.ocr_name, sin.registry.name,
                                             sin.name_ratio)
        IN  sout.decision =
                IF has_names /\ name_sim < 85 THEN "FAIL"
                ELSE IF has_names /\ name_sim < 90 THEN "REVIEW"
                ELSE ThresholdDecision(sout.final_score)

analyze_pdf_metadata(i) ==
    IF i.path # "pdf" THEN CheckResult(FALSE, 0)
    ELSE LET f == i.pdf
             flags == (IF f.created_after_modified THEN 1 ELSE 0) + f.software
                      + (IF f.no_creator_producer THEN 1 ELSE 0)
                      + (IF f.recent_modification THEN 1 ELSE 0)
             score == 100 - (IF f.created_after_modified THEN 20 ELSE 0)
                          - 15 * f.software
                          - (IF f.no_creator_producer THEN 10 ELSE 0)
                          - (IF f.recent_modification THEN 5 ELSE 0)
         IN  CheckResult(flags > 0, Max(0, Min(100, score)))

\* lines 894-935: the graduated copy-move contribution (in half points);
\* only a PDF is tested for a scanned look
CopyMovePenalty(i) ==
    IF ~i.copy_move_detected THEN 0
    ELSE IF i.path = "pdf" /\ i.looks_scanned
      THEN IF i.copy_move_confidence > 70 THEN 10
           ELSE IF i.copy_move_confidence > 50 THEN 6
           ELSE 3
      ELSE IF i.copy_move_confidence > 40 THEN 14
           ELSE IF i.copy_move_confidence > 25 THEN 8
           ELSE 4

\* lines 886-977: what each check adds to penalty, in half points
Contributions(i) ==
    <<IF i.ela_score > 50 THEN 10 ELSE 0,
      CopyMovePenalty(i),
      IF i.jpeg_quality < 30 THEN 6 ELSE 0,
      IF analyze_pdf_metadata(i).suspicious /\ analyze_pdf_metadata(i).score < 70
        THEN 4 ELSE 0,
      IF i.resolution.suspicious /\ i.resolution.score < 70 THEN 4 ELSE 0,
      IF i.color.suspicious /\ i.color.score < 50 THEN 3 ELSE 0,
      IF i.noise.suspicious /\ i.noise.score < 70 THEN 4 ELSE 0>>

\* lines 806-820, 829-843, 1011-1025: the dict of the early returns
ForensicFailure(cause) == ForensicResult(15 * Unit, 0, cause)

\* variant: the penalty is the plain sum of the contributions
forensic_process_document_uncapped(i) ==
    CASE i.path = "missing" -> ForensicFailure("File does not exist")
      [] i.path = "pdf_unconvertible" -> ForensicFailure("Could not convert PDF to image")
      [] i.path = "exception" -> ForensicFailure("exception")
      [] OTHER ->
           LET penalty == (SumSeq(Contributions(i)) * Unit) \div 2
           IN  ForensicResult(penalty, 100 * Unit - (penalty * 100) \div 15, NULL)

\* ForensicService.process_document
forensic_process_document(i) ==
    CASE i.path = "missing" -> ForensicFailure("File does not exist")
      [] i.path = "pdf_unconvertible" -> ForensicFailure("Could not convert PDF to image")
      [] i.path = "exception" -> ForensicFailure("exception")
      [] OTHER ->
           LET penalty == Min(15 * Unit, (SumSeq(Contributions(i)) * Unit) \div 2)
           IN  ForensicResult(penalty, 100 * Unit - (penalty * 100) \div 15, NULL)

\* verification.py line 105: the stage is called and returns
ForensicCall ==
    /\ ~fout.returned
    /\ fout' = forensic_process_document(fin)
    /\ UNCHANGED fin
    /\ UNCHANGED nonForensicVars

\* the job is re-run on the same file (a second Dispatcher run)
ForensicForget ==
    /\ fout.returned
    /\ fout' = NoForensicResult
    /\ UNCHANGED fin
    /\ UNCHANGED nonForensicVars

ForensicInit ==
    /\ JobInit
    /\ BusInit
    /\ QueueIdle
    /\ PagesIdle
    /\ VatIdle
    /\ NormIdle
    /\ ReviewIdle
    /\ ScoreIdle
    /\ DocIdle
    /\ fin \in ForensicInputs
    /\ fout = NoForensicResult

ForensicNext ==
    \/ ForensicCall
    \/ ForensicForget

ForensicSpec == ForensicInit /\ [][ForensicNext]_vars

\* the contributions counted for a call: none when the file is missing or
\* the PDF cannot be converted (no check runs before the early return)
ContributionSum(i) ==
    IF i.path \in {"missing", "pdf_unconvertible"} THEN 0
    ELSE (SumSeq(Contributions(i)) * Unit) \div 2

\* C18 as claimed: every result of the Forensic stage, on the normal path
\* and on every error path, has forensic_penalty in [0, 15] equal to
\* min(15, sum of the check contributions) and forensic_score equal to
\* 100 - forensic_penalty / 15 * 100.
C18_PenaltyClaimed ==
    fout.returned =>
        /\ 0 <= fout.forensic_penalty /\ fout.forensic_penalty <= 15 * Unit
        /\ fout.forensic_penalty = Min(15 * Unit, ContributionSum(fin))
        /\ fout.forensic_score = 100 * Unit - (fout.forensic_penalty * 100) \div 15

\* C18 amended: every result has forensic_penalty in [0, 15] and
\* forensic_score = 100 - forensic_penalty / 15 * 100; on the normal path the
\* penalty is min(15, sum of the check contributions), on the three error
\* paths it is 15 whatever the checks contributed.
C18_PenaltyCoded ==
    fout.returned =>
        /\ 0 <= fout.forensic_penalty /\ fout.forensic_penalty <= 15 * Unit
        /\ fout.forensic_score = 100 * Unit - (fout.forensic_penalty * 100) \div 15
        /\ fout.error = NULL
              => fout.forensic_penalty = Min(15 * Unit, ContributionSum(fin))
        /\ fout.error # NULL => fout.forensic_penalty = 15 * Unit

\* a normal-path result whose contributions exceed the cap
C18_Witness ==
    /\ fout.returned /\ fout.error = NULL
    /\ ContributionSum(fin) > 15 * Unit
    /\ fout.forensic_penalty = 15 * Unit /\ fout.forensic_score = 0

\* the scenario of C20: a PDF that does not look scanned, ELA above 50,
\* copy-move detected above confidence 40, a producer naming one image
\* editor, and nothing else found by any check
ImageEditorScenario(i) ==
    /\ i.path = "pdf" /\ ~i.looks_scanned
    /\ i.ela_score > 50
    /\ i.copy_move_detected /\ i.copy_move_confidence > 40
    /\ i.pdf.software = 1
    /\ ~i.pdf.created_after_modified /\ ~i.pdf.recent_modification
    /\ i.jpeg_quality >= 30
    /\ ~i.resolution.suspicious /\ ~i.color.suspicious /\ ~i.noise.suspicious

\* C20: in that scenario the Forensic stage returns forensic_penalty =
\* min(15, 5 + 7 + 2) = 14, and the final score is lower by 14 than with
\* penalty 0 (component scores 30 + 40 + 10 + 10, so that no clamp applies).
C20_ImageEditorPenalty ==
    (fout.returned /\ ImageEditorScenario(fin)) =>
        /\ fout.forensic_penalty = 14 * Unit
        /\ calculate_final_score(30 * Unit, 40 * Unit, 10 * Unit, 10 * Unit, 0)
           - calculate_final_score(30 * Unit, 40 * Unit, 10 * Unit, 10 * Unit,
                                   fout.forensic_penalty) = 14 * Unit

\* ===================================================== one run, with data
\* OCRService.process_document: extract_fields finds nothing in an empty text
ocr_process_document(i) ==
    IF i.text_empty THEN OcrResult(NULL, NoNumber, NULL, 0, TRUE)
    ELSE i.fields

\* verification.py lines 125-133: the OCR number, else the merchant's
QueryNumber(d, i) ==
    IF d.ocr.number # NoNumber THEN d.ocr.number ELSE i.merchant.number

\* validate_company_number_format after the normalization of lines 97-106
ValidFormat(n) == normalize_company_number(n).len = 8

\* whether extract_company_data raises: a profile whose
\* registered_office_address is null (line 137)
LookupRaises(n, answer) == ValidFormat(n) /\ answer = "hit_null_address"

\* CompaniesHouseService.extract_company_data
extract_company_data(n, answer) ==
    IF ~ValidFormat(n) THEN NoRegistryData
    ELSE IF answer = "hit"
      THEN [name |-> "a", number |-> normalize_company_number(n),
            address |-> "p", date |-> "d"]
    ELSE [name |-> NULL, number |-> normalize_company_number(n),
          address |-> NULL, date |-> NULL]

\* the three dicts of lines 162-182 and the penalty, as process_scoring
\* takes them
ScoreArgs(d, i) ==
    [ocr_name |-> d.ocr.name, ocr_number |-> d.ocr.number,
     ocr_address |-> d.ocr.address, confidence |-> d.ocr.confidence,
     merchant |-> i.merchant, registry |-> d.registry,
     forensic_penalty |-> d.forensic.forensic_penalty,
     name_ratio |-> i.name_ratio, other_ratio |-> i.other_ratio]

\* lines 50-83, the file being there
DocBegin ==
    /\ dpc = "start"
    /\ din.present_at_start
    /\ doc' = [doc EXCEPT !.status = "processing"]
    /\ devents' = devents \o <<"initializing", "file_validation">>
    /\ dpc' = "ocr"
    /\ UNCHANGED <<din, lookups, polls>>
    /\ UNCHANGED nonDocVars

\* variant: the early return leaves the row as it was read
DocFileMissing_noWrite ==
    /\ dpc = "start"
    /\ ~din.present_at_start
    /\ doc' = [doc EXCEPT !.status = "processing"]
    /\ devents' = Append(devents, "initializing")
    /\ dpc' = "failed"
    /\ UNCHANGED <<din, lookups, polls>>
    /\ UNCHANGED nonDocVars

\* lines 76-80: the file is not there
DocFileMissing ==
    /\ dpc = "start"
    /\ ~din.present_at_start
    /\ doc' = [doc EXCEPT !.status = "failed"]
    /\ devents' = Append(devents, "initializing")
    /\ dpc' = "failed"
    /\ UNCHANGED <<din, lookups, polls>>
    /\ UNCHANGED nonDocVars

\* ocr_service.py lines 482-504: the Textract job is IN_PROGRESS,
\* PARTIAL_SUCCESS or in an unexpected status and max_wait_time has not
\* passed, so the loop sleeps poll_interval and asks again
DocPollWait ==
    /\ dpc = "ocr"
    /\ polls < MaxPolls
    /\ polls' = polls + 1
    /\ UNCHANGED <<din, doc, dpc, devents, lookups>>
    /\ UNCHANGED nonDocVars

\* ocr_service.py lines 484-486: past max_wait_time the loop returns "", 0.0
TimedOut == polls = MaxPolls

\* lines 85-99
DocExtract ==
    /\ dpc = "ocr"
    /\ doc' = [doc EXCEPT !.ocr = ocr_process_document(
                  IF TimedOut THEN [din EXCEPT !.text_empty = TRUE] ELSE din)]
    /\ devents' = devents \o <<"ocr_extraction", "ocr_complete">>
    /\ dpc' = "forensic"
    /\ UNCHANGED <<din, lookups, polls>>
    /\ UNCHANGED nonDocVars

\* variant: the Forensic stage lets the failure reach the Dispatcher, whose
\* handler fails the job
DocForensic_raises ==
    /\ dpc = "forensic"
    /\ IF forensic_process_document(din.file).error # NULL
         THEN /\ doc' = [doc EXCEPT !.status = "failed",
                                    !.result = [NoResult EXCEPT !.decision = "FAIL"]]
              /\ devents' = devents \o <<"forensic_analysis", "error">>
              /\ dpc' = "failed"
         ELSE /\ doc' = [doc EXCEPT !.forensic = forensic_process_document(din.file)]
              /\ devents' = devents \o <<"forensic_analysis", "forensic_complete">>
              /\ dpc' = "registry"
    /\ UNCHANGED <<din, lookups, polls>>
    /\ UNCHANGED nonDocVars

\* lines 101-117
DocForensic ==
    /\ dpc = "forensic"
    /\ doc' = [doc EXCEPT !.forensic = forensic_process_document(din.file)]
    /\ devents' = devents \o <<"forensic_analysis", "forensic_complete">>
    /\ dpc' = "registry"
    /\ UNCHANGED <<din, lookups, polls>>
    /\ UNCHANGED nonDocVars

\* lines 119-154: a number is at hand and extract_company_data returns
DocRegistryLookup ==
    /\ dpc = "registry"
    /\ QueryNumber(doc, din) # NoNumber
    /\ ~LookupRaises(QueryNumber(doc, din), din.registry)
    /\ doc' = [doc EXCEPT
                 !.registry = extract_company_data(QueryNumber(doc, din), din.registry)]
    /\ lookups' = IF ValidFormat(QueryNumber(doc, din)) THEN lookups + 1 ELSE lookups
    /\ devents' = devents \o <<"companies_house_lookup", "companies_house_complete">>
    /\ dpc' = "score"
    /\ UNCHANGED <<din, polls>>
    /\ UNCHANGED nonDocVars

\* lines 119-145 and 248-270: extract_company_data raises, the handler
\* fails the job
DocRegistryRaises ==
    /\ dpc = "registry"
    /\ QueryNumber(doc, din) # NoNumber
    /\ LookupRaises(QueryNumber(doc, din), din.registry)
    /\ doc' = [doc EXCEPT !.status = "failed",
                          !.result = [NoResult EXCEPT !.decision = "FAIL"]]
    /\ lookups' = lookups + 1
    /\ devents' = devents \o <<"companies_house_lookup", "error">>
    /\ dpc' = "failed"
    /\ UNCHANGED <<din, polls>>
    /\ UNCHANGED nonDocVars

\* variant: the stage is skipped without its event
DocRegistrySkip_silent ==
    /\ dpc = "registry"
    /\ QueryNumber(doc, din) = NoNumber
    /\ devents' = devents \o <<"companies_house_lookup">>
    /\ dpc' = "score"
    /\ UNCHANGED <<din, doc, lookups, polls>>
    /\ UNCHANGED nonDocVars

\* lines 119-133 and 155-157: no number at hand
DocRegistrySkip ==
    /\ dpc = "registry"
    /\ QueryNumber(doc, din) = NoNumber
    /\ devents' = devents \o <<"companies_house_lookup", "companies_house_skipped">>
    /\ dpc' = "score"
    /\ UNCHANGED <<din, doc, lookups, polls>>
    /\ UNCHANGED nonDocVars

\* lines 159-240: scores, decision, status, closing event
DocScore ==
    /\ dpc = "score"
    /\ LET result == process_scoring(ScoreArgs(doc, din))
       IN  doc' = [doc EXCEPT !.result = result, !.status = StatusOf(result.decision)]
    /\ devents' = devents \o <<"score_calculation", "complete">>
    /\ dpc' = "done"
    /\ UNCHANGED <<din, lookups, polls>>
    /\ UNCHANGED nonDocVars

DocInit ==
    /\ JobInit
    /\ BusInit
    /\ QueueIdle
    /\ PagesIdle
    /\ VatIdle
    /\ NormIdle
    /\ ReviewIdle
    /\ ScoreIdle
    /\ ForensicIdle
    /\ din \in DocInputs
    /\ doc = NewDocument
    /\ dpc = "start"
    /\ devents = <<>>
    /\ lookups = 0
    /\ polls = 0

DocNext ==
    \/ DocBegin
    \/ DocFileMissing
    \/ DocPollWait
    \/ DocExtract
    \/ DocForensic
    \/ DocRegistryLookup
    \/ DocRegistryRaises
    \/ DocRegistrySkip
    \/ DocScore

DocSpec == DocInit /\ [][DocNext]_vars

\* the Registry stage of the run is over
RegistryStageOver == dpc \in {"score", "done"}

\* the registry did not give a profile: not found, HTTP error, network error
LookupFailed(answer) == answer \in {"miss", "http_error", "network_error"}

\* C16: when the registry lookup of a job misses or fails with a network or
\* HTTP error, every registry-authoritative field of the job (name, number,
\* address, date) is null afterwards, the job is not failed by the Registry
\* stage, and the pipeline proceeds to Score.
C16_FailedLookupBlank ==
    (LookupFailed(din.registry) /\ lookups > 0) =>
        /\ RegistryStageOver
        /\ doc.registry = NoRegistryData
        /\ dpc = "score" => doc.status = "processing"

Unreadable(f) == f.path \in {"missing", "pdf_unconvertible", "exception"}

\* C19: the Forensic stage never raises to the Dispatcher: when the file is
\* missing, the PDF is not convertible or an exception occurs inside the
\* stage, it returns forensic_penalty 15 and forensic_score 0 with a details
\* entry naming the cause, and the job continues to the Registry and Score
\* stages instead of being failed.
C19_ForensicNeverRaises ==
    (Unreadable(din.file) /\ "forensic_analysis" \in Range(devents)) =>
        /\ doc.forensic.returned
        /\ doc.forensic.forensic_penalty = 15 * Unit
        /\ doc.forensic.forensic_score = 0
        /\ doc.forensic.error # NULL
        /\ "forensic_complete" \in Range(devents)
        /\ dpc \in {"registry", "score"} => doc.status = "processing"
        /\ dpc = "failed" => "companies_house_lookup" \in Range(devents)
        /\ dpc \in {"registry", "score", "done", "failed"}

\* a run whose Forensic stage found no file and which was scored
C19_Witness ==
    /\ din.file.path = "missing"
    /\ dpc = "done"
    /\ doc.forensic.error = "File does not exist"
    /\ doc.forensic.forensic_penalty = 15 * Unit
    /\ "companies_house_complete" \in Range(devents)
    /\ doc.result.variant = "company"

\* ================================================= claims on the job model
\* the Dispatcher runs that are executing process_document_verification
ActiveRuns == {r \in Runs : pc[r] \notin {"idle", "scheduled", "done"}}

\* C21: at any time at most one Dispatcher run is active for the job, under
\* any interleaving of the upload auto-start, calls to the process endpoint
\* (direct or from the lambda handler) and the queue worker.
C21_SingleDispatcher ==
    Cardinality(ActiveRuns) <= 1

C27_StatusDecisionAgree ==
    /\ status = "passed" => decision = "PASS"
    /\ status = "review" => decision = "REVIEW"

\* ============================================================ manual review
\* variant: the status guard of lines 333-337 is missing
manual_review_request_anyStatus(action, notes, id) ==
    /\ IF action \notin ReviewActions
         THEN /\ rreq' = ReviewRequest(action, notes, id, 400)
              /\ UNCHANGED rrow
         ELSE /\ rreq' = ReviewRequest(action, notes, id, 200)
              /\ rrow' = [rrow EXCEPT
                            !.reviewer_action = action,
                            !.reviewer_notes = notes,
                            !.reviewer_id = id,
                            !.status = CASE action = "APPROVE" -> "passed"
                                         [] action = "REJECT" -> "failed"
                                         [] action = "ESCALATE" -> "manual_review",
                            !.decision = CASE action = "APPROVE" -> "PASS"
                                           [] action = "REJECT" -> "FAIL"
                                           [] action = "ESCALATE" -> @]
    /\ UNCHANGED nonReviewVars

\* manual_review (lines 316-363) with its arguments and review metadata
manual_review_request(action, notes, id) ==
    /\ IF rrow.status # "review" \/ action \notin ReviewActions
         THEN /\ rreq' = ReviewRequest(action, notes, id, 400)
              /\ UNCHANGED rrow
         ELSE /\ rreq' = ReviewRequest(action, notes, id, 200)
              /\ rrow' = [rrow EXCEPT
                            !.reviewer_action = action,
                            !.reviewer_notes = notes,
                            !.reviewer_id = id,
                            !.status = CASE action = "APPROVE" -> "passed"
                                         [] action = "REJECT" -> "failed"
                                         [] action = "ESCALATE" -> "manual_review",
                            !.decision = CASE action = "APPROVE" -> "PASS"
                                           [] action = "REJECT" -> "FAIL"
                                           [] action = "ESCALATE" -> @]
    /\ UNCHANGED nonReviewVars

ReviewInit ==
    /\ JobInit
    /\ BusInit
    /\ QueueIdle
    /\ PagesIdle
    /\ VatIdle
    /\ NormIdle
    /\ ScoreIdle
    /\ ForensicIdle
    /\ DocIdle
    /\ rrow \in ReviewRows
    /\ rreq = NoRequest

ReviewNext ==
    \E action \in ReviewActions \cup {"DELETE"}, notes \in {NULL, "n"}, id \in {NULL, "u"} :
        manual_review_request(action, notes, id)

ReviewSpec == ReviewInit /\ [][ReviewNext]_vars

\* C23: a reviewer action changes a job only when its status is review:
\* APPROVE sets status passed and decision PASS, REJECT sets status failed
\* and decision FAIL, ESCALATE sets status manual_review and leaves the
\* decision unchanged; a reviewer action on a job in any other status, or
\* with an action outside {APPROVE, REJECT, ESCALATE}, is rejected and leaves
\* status, decision and review metadata unchanged.
C23_ReviewerAction ==
    [][IF rrow.status = "review" /\ rreq'.action \in ReviewActions
         THEN /\ rreq'.code = 200
              /\ rreq'.action = "APPROVE"
                    => rrow'.status = "passed" /\ rrow'.decision = "PASS"
              /\ rreq'.action = "REJECT"
                    => rrow'.status = "failed" /\ rrow'.decision = "FAIL"
              /\ rreq'.action = "ESCALATE"
                    => rrow'.status = "manual_review" /\ rrow'.decision = rrow.decision
         ELSE /\ rreq'.code = 400
              /\ rrow' = rrow]_vars

\* an escalated job that kept its decision and carries the review metadata
C23_Witness ==
    /\ rrow.status = "manual_review" /\ rrow.decision = "REVIEW"
    /\ rrow.reviewer_action = "ESCALATE" /\ rrow.reviewer_id = "u"
    /\ rreq.code = 200

\* ================================================== company number as text
\* variant: a 6-digit number is padded with one zero only
normalize_company_number_text_pad1(company_number) ==
    IF company_number.none \/ company_number.s = <<>> THEN None
    ELSE LET upper == [i \in 1..Len(company_number.s) |->
                          IF company_number.s[i] = "c" THEN "C" ELSE company_number.s[i]]
             normalized == SelectSeq(upper, LAMBDA ch : ch # " ")
             isdigit == normalized # <<>> /\ \A i \in 1..Len(normalized) : normalized[i] \in {"0", "1"}
             padded == IF isdigit /\ Len(normalized) \in {6, 7}
                         THEN <<"0">> \o normalized
                         ELSE normalized
             digits(q) == \A i \in 1..Len(q) : q[i] \in {"0", "1"}
             matches == /\ Len(padded) = 8
                        /\ \/ digits(padded)
                           \/ /\ padded[1] = "C" /\ padded[2] = "C"
                              /\ digits(SubSeq(padded, 3, 8))
         IN  IF isdigit /\ Len(normalized) \notin {6, 7, 8} THEN company_number
             ELSE IF matches THEN Str(padded)
             ELSE company_number

\* ScoringService.normalize_company_number on the text itself: None for a
\* falsy input; blanks and hyphens removed and upper-cased; an all-digit text
\* of 6 or 7 characters padded to 8; the result if it is 8 digits or two
\* letters and 6 digits, else the input as it was given
normalize_company_number_text(company_number) ==
    IF company_number.none \/ company_number.s = <<>> THEN None
    ELSE LET upper == [i \in 1..Len(company_number.s) |->
                          IF company_number.s[i] = "c" THEN "C" ELSE company_number.s[i]]
             normalized == SelectSeq(upper, LAMBDA ch : ch # " ")
             isdigit == normalized # <<>> /\ \A i \in 1..Len(normalized) : normalized[i] \in {"0", "1"}
             padded == IF isdigit /\ Len(normalized) = 6 THEN <<"0", "0">> \o normalized
                       ELSE IF isdigit /\ Len(normalized) = 7 THEN <<"0">> \o normalized
                       ELSE normalized
             digits(q) == \A i \in 1..Len(q) : q[i] \in {"0", "1"}
             matches == /\ Len(padded) = 8
                        /\ \/ digits(padded)
                           \/ /\ padded[1] = "C" /\ padded[2] = "C"
                              /\ digits(SubSeq(padded, 3, 8))
         IN  IF isdigit /\ Len(normalized) \notin {6, 7, 8} THEN company_number
             ELSE IF matches THEN Str(padded)
             ELSE company_number

\* calculate_registry_score line 75: the call on the OCR number returns
NormCall ==
    /\ ~nout.returned
    /\ nout' = [returned |-> TRUE, value |-> normalize_company_number_text(nin)]
    /\ UNCHANGED nin
    /\ UNCHANGED nonNormVars

NormInit ==
    /\ JobInit
    /\ BusInit
    /\ QueueIdle
    /\ PagesIdle
    /\ VatIdle
    /\ ReviewIdle
    /\ ScoreIdle
    /\ ForensicIdle
    /\ DocIdle
    /\ nin \in NumberTexts
    /\ nout = [returned |-> FALSE, value |-> None]

NormNext == NormCall

NormSpec == NormInit /\ [][NormNext]_vars

\* a text of 8 digits
RegistryNumbers == {Str(s) : s \in [1..8 -> {"0", "1"}]}

\* s left-padded with zeros to 8 characters
ZeroPad(s) ==
    [i \in 1..8 |-> IF i <= 8 - Len(s) THEN "0" ELSE s[i - (8 - Len(s))]]

AllDigits(s) == s # <<>> /\ \A i \in 1..Len(s) : s[i] \in {"0", "1"}

\* C24: normalization is idempotent, normalize(normalize(n)) = normalize(n)
\* for every text n; and an all-digit text of length 6 or 7 normalizes to a
\* value equal to a registry 8-digit number exactly when left-padding it with
\* zeros to 8 digits gives that number.
C24_NormalizeIdempotent ==
    nout.returned =>
        /\ normalize_company_number_text(nout.value) = nout.value
        /\ (~nin.none /\ AllDigits(nin.s) /\ Len(nin.s) \in {6, 7}) =>
              \A g \in RegistryNumbers :
                  nout.value = g <=> Str(ZeroPad(nin.s)) = g

\* a 6-digit text with a lower-case-free, blank-free form, padded twice
C24_Witness ==
    /\ nout.returned
    /\ nin = Str(<<"1", "0", "1", "0", "1", "1">>)
    /\ nout.value = Str(<<"0", "0", "1", "0", "1", "0", "1", "1">>)

\* ====================================================== VAT registry client
\* line 49: timedelta(minutes=5), in units of 5 minutes
RefreshMargin == 1

\* variant: the cached token is used until it expires
CachedTokenValid_untilExpiry(h, now) ==
    /\ h.access_token # 0 /\ h.token_expires_at # 0
    /\ now < h.token_expires_at

\* _get_oauth_token lines 47-51: the cached token is still to be used
CachedTokenValid(h, now) ==
    /\ h.access_token # 0 /\ h.token_expires_at # 0
    /\ now < h.token_expires_at - RefreshMargin

\* the server token as a bearer token (never one of the issued tokens)
ServerToken == 0 - 1

\* time passes
VatTick ==
    /\ tclock < MaxClock
    /\ tclock' = tclock + 1
    /\ UNCHANGED <<hmrc, tissued, trejected, tlast>>
    /\ UNCHANGED nonVatVars

\* verify_vat_number on a well-formed number: _get_auth_header (the cached
\* token, else a token request, else the server token), then the lookup.
\* tokenOk: the token endpoint answers 200; expires_in: the lifetime it
\* announces; code: the HTTP status of the lookup.
verify_vat_number(tokenOk, expires_in, code) ==
    /\ tlast.n < MaxLookups
    /\ LET cached == CachedTokenValid(hmrc, tclock)
           granted == ~cached /\ tokenOk
           afterToken == IF granted
                           THEN VatClient(tissued + 1, tclock + expires_in, hmrc.server_token)
                           ELSE hmrc
           token == IF cached THEN hmrc.access_token
                    ELSE IF granted THEN tissued + 1
                    ELSE IF hmrc.server_token THEN ServerToken
                    ELSE 0
           source == IF cached THEN "cache"
                     ELSE IF granted THEN "new"
                     ELSE IF hmrc.server_token THEN "server"
                     ELSE "none"
       IN  /\ tissued' = IF granted THEN tissued + 1 ELSE tissued
           /\ IF token = 0
                THEN /\ hmrc' = afterToken
                     /\ tlast' = VatCall(tlast.n + 1, 0, source, ~cached, 0,
                                         "authentication_required")
                     /\ UNCHANGED trejected
                ELSE /\ hmrc' = IF code = 401
                                  THEN VatClient(0, 0, hmrc.server_token)
                                  ELSE afterToken
                     /\ tlast' = VatCall(tlast.n + 1, token, source, ~cached, code,
                                         CASE code = 200 -> "verified"
                                           [] code = 404 -> "not_found"
                                           [] OTHER -> NULL)
                     /\ trejected' = IF code = 401 /\ token # ServerToken
                                       THEN trejected \cup {token}
                                       ELSE trejected
    /\ UNCHANGED tclock
    /\ UNCHANGED nonVatVars

VatInit ==
    /\ JobInit
    /\ BusInit
    /\ QueueIdle
    /\ PagesIdle
    /\ NormIdle
    /\ ReviewIdle
    /\ ScoreIdle
    /\ ForensicIdle
    /\ DocIdle
    /\ hmrc \in {VatClient(0, 0, s) : s \in BOOLEAN}
    /\ tclock = 0
    /\ tissued = 0
    /\ trejected = {}
    /\ tlast = VatCall(0, 0, "none", FALSE, 0, NULL)

VatNext ==
    \/ VatTick
    \/ \E tokenOk \in BOOLEAN, expires_in \in {1, 3}, code \in {200, 404, 401, 500} :
          verify_vat_number(tokenOk, expires_in, code)

VatSpec == VatInit /\ [][VatNext]_vars

\* C25: a cached OAuth token is reused for a lookup only while the current
\* time is earlier than its expiry minus 5 minutes; at or after that point a
\* new token is requested before the lookup; after a 401 response the cached
\* token is cleared and the lookup returns null, so that no later lookup uses
\* the rejected token.
C25_TokenCache ==
    [][tlast'.n # tlast.n =>
          /\ tlast'.source = "cache" =>
                /\ tlast'.token = hmrc.access_token
                /\ tclock < hmrc.token_expires_at - RefreshMargin
          /\ (hmrc.access_token # 0 /\ tclock >= hmrc.token_expires_at - RefreshMargin) =>
                /\ tlast'.requested
                /\ tlast'.token # hmrc.access_token
          /\ tlast'.code = 401 =>
                /\ hmrc'.access_token = 0 /\ hmrc'.token_expires_at = 0
                /\ tlast'.result = NULL
          /\ tlast'.token \notin trejected]_vars

\* a token was rejected with 401 and a later lookup succeeded with a new one
C25_Witness ==
    /\ trejected # {}
    /\ tlast.source = "new" /\ tlast.code = 200
    /\ tlast.token \notin trejected
    /\ hmrc.access_token = tlast.token

\* ============================================================ page fallback
Pages == 1..MaxPages

\* list.sort(key=...) of line 201: stable, by the number read from the name
SortByKey(paths) ==
    SelectSeq(paths, LAMBDA p : p.key = 0) \o SelectSeq(paths, LAMBDA p : p.key = 1)
        \o SelectSeq(paths, LAMBDA p : p.key = 2)

\* lines 189-199: the save_image task of page i completes and its path is
\* appended; after the last one the list is sorted (line 201) and returned
save_image(i, key) ==
    /\ opc = "saving"
    /\ i \in osaving
    /\ osaving' = osaving \ {i}
    /\ IF osaving = {i}
         THEN /\ temp_image_paths' = SortByKey(Append(temp_image_paths, PagePath(i, key)))
              /\ opc' = "ocr"
         ELSE /\ temp_image_paths' = Append(temp_image_paths, PagePath(i, key))
              /\ UNCHANGED opc
    /\ UNCHANGED <<results_dict, full_text>>
    /\ UNCHANGED nonPagesVars

\* lines 264-273: the _process_single_image task of index k completes; the
\* text of a page is written here as the page's number
process_single_image(k) ==
    /\ opc = "ocr"
    /\ results_dict[k] = 0
    /\ results_dict' = [results_dict EXCEPT ![k] = temp_image_paths[k].page]
    /\ UNCHANGED <<opc, osaving, temp_image_paths, full_text>>
    /\ UNCHANGED nonPagesVars

\* lines 275-286: all tasks done, the texts are joined in index order
extract_text_from_images_join ==
    /\ opc = "ocr"
    /\ \A k \in Pages : results_dict[k] # 0
    /\ full_text' = results_dict
    /\ opc' = "done"
    /\ UNCHANGED <<osaving, temp_image_paths, results_dict>>
    /\ UNCHANGED nonPagesVars

PagesInit ==
    /\ JobInit
    /\ BusInit
    /\ QueueIdle
    /\ VatIdle
    /\ NormIdle
    /\ ReviewIdle
    /\ ScoreIdle
    /\ ForensicIdle
    /\ DocIdle
    /\ opc = "saving"
    /\ osaving = Pages
    /\ temp_image_paths = <<>>
    /\ results_dict = [k \in Pages |-> 0]
    /\ full_text = <<>>

PagesNext ==
    \/ \E i \in Pages, key \in 0..2 : save_image(i, key)
    \/ \E k \in Pages : process_single_image(k)
    \/ extract_text_from_images_join

PagesSpec == PagesInit /\ [][PagesNext]_vars

\* C26: when extraction falls back to per-page conversion with parallel
\* saving and parallel OCR calls, the returned text is the concatenation of
\* the page texts in document page order, for every order in which the save
\* tasks and the OCR calls complete.
C26_PageOrder ==
    opc = "done" => full_text = [k \in Pages |-> k]

\* ------------------------------------------------------------ termination
\* the run is scheduled fairly: its task is never suspended for ever, and
\* every external call returns or fails
FairDocSpec == DocInit /\ [][DocNext]_vars /\ WF_vars(DocNext)

\* the run has returned
DocReturned == dpc \in {"done", "failed"}

\* C28: every run on an existing job returns, and when it has returned the
\* job's status is passed, failed or review, never processing, whichever
\* exit it took (closing step, missing file, exception handler).
C28_RunTerminates ==
    /\ <>DocReturned
    /\ [](DocReturned => doc.status \in AutoTerminal)

\* a run whose OCR polling ran to max_wait_time has returned
C28_Witness ==
    /\ DocReturned
    /\ TimedOut
    /\ doc.status \in AutoTerminal

\* ------------------------------------------------------------ queue worker
\* variant: an unknown action is acknowledged
process_message_body_ackUnknown(body, raises) ==
    IF body \in {"bad_json", "not_object", "no_document_id"}
      THEN [dispatched |-> FALSE, success |-> FALSE]
    ELSE IF body \in {"process", "no_action"}
      THEN [dispatched |-> TRUE, success |-> ~raises]
    ELSE [dispatched |-> FALSE, success |-> TRUE]

\* worker.py lines 25-58: whether the Dispatcher is called, and the value
\* returned. json.loads raises on a body that is not JSON; body.get raises
\* on JSON that is not an object; a missing action defaults to process.
process_message_body(body, raises) ==
    IF body \in {"bad_json", "not_object", "no_document_id"}
      THEN [dispatched |-> FALSE, success |-> FALSE]
    ELSE IF body \in {"process", "no_action"}
      THEN [dispatched |-> TRUE, success |-> ~raises]
    ELSE [dispatched |-> FALSE, success |-> FALSE]

\* lines 75-84: receive_message returns the message and hides it for the
\* visibility timeout
QueueReceive ==
    /\ qwork = "poll"
    /\ qstate = "visible"
    /\ qreceives < MaxDeliveries
    /\ qstate' = "inflight"
    /\ qreceives' = qreceives + 1
    /\ qwork' = "handling"
    /\ UNCHANGED <<qbody, qcalls, qdispatched>>
    /\ UNCHANGED nonQueueVars

\* lines 86-104: one process_message call; delete_message only on success,
\* and a delete_message that raises is logged
QueueHandle(raises, deleteOk) ==
    /\ qwork = "handling"
    /\ LET r == process_message_body(qbody, raises)
       IN  /\ qcalls' = qcalls + 1
           /\ qdispatched' = IF r.dispatched THEN qdispatched + 1 ELSE qdispatched
           /\ qstate' = IF r.success /\ deleteOk THEN "deleted" ELSE qstate
    /\ qwork' = "poll"
    /\ UNCHANGED <<qbody, qreceives>>
    /\ UNCHANGED nonQueueVars

\* the queue: the visibility timeout of a received message passes
QueueVisibilityTimeout ==
    /\ qstate = "inflight"
    /\ qstate' = "visible"
    /\ UNCHANGED <<qbody, qwork, qreceives, qcalls, qdispatched>>
    /\ UNCHANGED nonQueueVars

QueueInit ==
    /\ JobInit
    /\ BusInit
    /\ PagesIdle
    /\ VatIdle
    /\ NormIdle
    /\ ReviewIdle
    /\ ScoreIdle
    /\ ForensicIdle
    /\ DocIdle
    /\ qbody \in MessageBodies
    /\ qstate = "visible"
    /\ qwork = "poll"
    /\ qreceives = 0
    /\ qcalls = 0
    /\ qdispatched = 0

QueueNext ==
    \/ QueueReceive
    \/ \E raises \in BOOLEAN, deleteOk \in BOOLEAN : QueueHandle(raises, deleteOk)
    \/ QueueVisibilityTimeout

QueueSpec == QueueInit /\ [][QueueNext]_vars

\* the worker keeps polling and the queue keeps its timeouts
FairQueueSpec == QueueSpec /\ WF_vars(QueueNext)

\* bodies that process_message rejects without calling the Dispatcher
RejectedBodies == {"bad_json", "not_object", "no_document_id", "other_action"}

\* C29: a message that process_message rejects without running the
\* Dispatcher is never deleted and never dispatched; each delivery gets at
\* most one process_message call (no in-process retry); and the message is
\* received again after every visibility timeout, whatever the number of
\* deliveries so far.
C29_RejectedRedelivered ==
    /\ [](qbody \in RejectedBodies =>
            /\ qstate # "deleted"
            /\ qdispatched = 0
            /\ qcalls <= qreceives)
    /\ (qbody \in RejectedBodies) => <>(qreceives = MaxDeliveries)

\* a rejected message received for the third time, each earlier delivery
\* handled once
C29_Witness ==
    /\ qbody \in RejectedBodies
    /\ qreceives >= 3
    /\ qcalls = qreceives - 1
    /\ qstate = "inflight"

\* --------------------------------------------- monotonicity in the name match
\* similarities of two names, in percent
SimilarityPercents == 0..100

\* the arguments of the call with the name similarity replaced by s
WithNameSimilarity(i, s) == [i EXCEPT !.name_ratio = s]

\* C30: with the company-number and address inputs held fixed, the
\* ocr_comparison_score is monotone non-decreasing in the OCR-vs-registry
\* name similarity: for s1 <= s2 the name contribution and the capped total
\* computed for s1 are not greater than those computed for s2.
C30_NameMonotone ==
    (/\ sout.variant = "company"
     /\ sin.ocr_name # NULL /\ sin.registry.name # NULL
     /\ sin.ocr_name # sin.registry.name) =>
        \A s1 \in SimilarityPercents, s2 \in SimilarityPercents :
            s1 <= s2 =>
                /\ NameScore(s1) <= NameScore(s2)
                /\ calculate_ocr_comparison_score(WithNameSimilarity(sin, s1))
                      <= calculate_ocr_comparison_score(WithNameSimilarity(sin, s2))

====
